---- MODULE Spec2Model ----
(***************************************************************************)
(* Rolling-ball platformer physics core (player.js, obstacles.js,          *)
(* terrain.js).  The JavaScript code computes in IEEE doubles; the model   *)
(* computes in fixed point over the integers:                              *)
(*   lengths             1/100 of a world unit          (radius 10 = 1000) *)
(*   linear velocity     1/100 unit per second                             *)
(*   force/acceleration  1/100 unit per second squared  (mass is 1)        *)
(*   angles              1/1000 radian, angular velocity 1/1000 rad/s      *)
(*   unit vectors        components times 1000          ((0,1) = (0,1000)) *)
(*   time step           milliseconds                                      *)
(* Every quotient is truncated toward zero (TDiv).                         *)
(***************************************************************************)
EXTENDS Integers, Sequences, FiniteSets

VARIABLES
    world,        \* index of the configured world (terrain + obstacles)
    player,       \* the player object: position, linearVelocity, angularVelocity (z),
                  \* rotation (z), isGrounded, currentSurface
    pc,           \* position inside updatePhysics
    keys,         \* input snapshot of the running tick
    deltaTime,    \* dt of the running tick
    forces,       \* local of updatePhysics: result of applyForces
    jumpVector,   \* local of applyForces: the jump force added (zero if none)
    inputTorque,  \* local of updatePhysics: result of applyTorque
    collision,    \* locals of the last handleCollisions: predictedPosition, terrainInfo,
                  \* obstacleInfo, and contacts, the surfaces it resolved in order
    ticks,        \* number of completed ticks
    query,        \* arguments of a stand-alone surface query
    before        \* the player as the running tick found it

vars == <<world, player, pc, keys, deltaTime, forces, jumpVector, inputTorque, collision,
          ticks, query, before>>

(***************************************************************************)
(* Bounds of the model.                                                    *)
(***************************************************************************)
MaxTicks == 3

(***************************************************************************)
(* Arithmetic.                                                             *)
(***************************************************************************)
Abs(a) == IF a < 0 THEN -a ELSE a

Sign(a) == IF a > 0 THEN 1 ELSE IF a < 0 THEN -1 ELSE 0

Max(a, b) == IF a >= b THEN a ELSE b

Min(a, b) == IF a <= b THEN a ELSE b

\* a / b for b > 0, truncated toward zero
TDiv(a, b) == IF a >= 0 THEN a \div b ELSE -((-a) \div b)

RECURSIVE SqrtSearch(_, _, _)
SqrtSearch(n, lo, hi) ==
    IF lo >= hi THEN lo
    ELSE LET mid == (lo + hi + 1) \div 2
         IN  IF mid * mid <= n THEN SqrtSearch(n, mid, hi)
                               ELSE SqrtSearch(n, lo, mid - 1)

\* Math.sqrt, rounded down
Sqrt(n) == SqrtSearch(n, 0, 46340)

Vec(x, y) == [x |-> x, y |-> y]

VAdd(a, b) == Vec(a.x + b.x, a.y + b.y)

\* v * (num / den)
VScale(v, num, den) == Vec(TDiv(v.x * num, den), TDiv(v.y * num, den))

Dot(a, b) == a.x * b.x + a.y * b.y

\* Vector3.length
Length(v) == Sqrt(Dot(v, v))

\* Vector3.normalize: a unit vector (times 1000); the zero vector stays zero
NormalizeBy(v, len) ==
    IF len = 0 THEN Vec(0, 0) ELSE Vec(TDiv(v.x * 1000, len), TDiv(v.y * 1000, len))

Normalize(v) == NormalizeBy(v, Length(v))

(***************************************************************************)
(* Player constants (createPlayer).                                        *)
(***************************************************************************)
radius == 1000

mass == 1

momentOfInertia == 40

gravityScale == 15

coefficientOfFriction == 10

\* 0.3, in hundredths
coefficientOfRestitution == 30

\* 0.001, in thousandths
airResistanceCoefficient == 1

\* 0.008, in thousandths
groundResistanceCoefficient == 8

\* 0.04, in thousandths
angularAirResistanceCoefficient == 40

inputTorqueMagnitude == 3000

airControlForce == 1200

\* 0.7, in hundredths
airControlDistribution == 70

jumpForce == 7000

\* 1.0
groundTolerance == 100

\* 5.0
angularCorrectionStrength == 5

\* player.position.set(0, 100, 0)
StartPosition == Vec(0, 10000)

(***************************************************************************)
(* Surfaces.                                                               *)
(***************************************************************************)
\* null
NoSurface ==
    [kind |-> "none", height |-> 0, normal |-> Vec(0, 0), penetrationDepth |-> 0,
     isVertical |-> FALSE, allowGrounded |-> FALSE, obstacleId |-> 0]

Surface(kind, height, normal, depth, grounded, id) ==
    [kind |-> kind, height |-> height, normal |-> normal, penetrationDepth |-> depth,
     isVertical |-> Abs(normal.x) > Abs(normal.y), allowGrounded |-> grounded,
     obstacleId |-> id]

(***************************************************************************)
(* Terrain height-field (terrain.js).                                      *)
(***************************************************************************)
\* the first i in from..Len(groundPoints)-1 whose segment holds x, or 0
RECURSIVE FindSegment(_, _, _)
FindSegment(x, groundPoints, i) ==
    IF i > Len(groundPoints) - 1 THEN 0
    ELSE IF x >= groundPoints[i].x /\ x < groundPoints[i + 1].x THEN i
    ELSE FindSegment(x, groundPoints, i + 1)

getTerrainInfo(x, groundPoints) ==
    LET n == Len(groundPoints)
    IN  IF x < groundPoints[1].x
        THEN Surface("terrain", groundPoints[1].y, Vec(0, 1000), 0, FALSE, 0)
        ELSE IF x > groundPoints[n].x
        THEN Surface("terrain", groundPoints[n].y, Vec(0, 1000), 0, FALSE, 0)
        ELSE LET found == FindSegment(x, groundPoints, 1)
                 \* let segment = 0 stays when the loop finds none
                 segment == IF found = 0 THEN 1 ELSE found
                 p1 == groundPoints[segment]
                 p2 == groundPoints[segment + 1]
                 dx == p2.x - p1.x
                 dy == p2.y - p1.y
                 height == p1.y + TDiv((x - p1.x) * dy, dx)
             IN  Surface("terrain", height, Normalize(Vec(-dy, dx)), 0, FALSE, 0)

(***************************************************************************)
(* Box obstacles (obstacles.js).                                           *)
(***************************************************************************)
Box(id, x, y, width, height) ==
    [id |-> id, x |-> x, y |-> y, width |-> width, height |-> height]

\* the point of the box closest to (playerX, playerY)
ClosestPoint(o, playerX, playerY) ==
    Vec(Max(o.x - TDiv(o.width, 2), Min(playerX, o.x + TDiv(o.width, 2))),
        Max(o.y - TDiv(o.height, 2), Min(playerY, o.y + TDiv(o.height, 2))))

\* the face normal getSurfaceInfo of obstacles.js picks for a contact vector
FaceNormal(contactDx, contactDy) ==
    IF Abs(contactDx) > Abs(contactDy) THEN Vec(1000 * Sign(contactDx), 0)
                                       ELSE Vec(0, 1000 * Sign(contactDy))

\* surfaceHeight of getSurfaceInfo of obstacles.js
FaceHeight(o, playerY, playerRadius, contactDx, contactDy) ==
    IF Abs(contactDx) > Abs(contactDy)
    THEN IF playerY > o.y THEN o.y + TDiv(o.height, 2) + playerRadius
                          ELSE o.y - TDiv(o.height, 2) - playerRadius
    ELSE IF Sign(contactDy) > 0 THEN o.y + TDiv(o.height, 2) ELSE o.y - TDiv(o.height, 2)

\* variant of FaceSurface without the tolerance: null unless the body overlaps
FaceSurface_Overlapping(o, playerY, playerRadius, contactDx, contactDy) ==
    IF contactDx * contactDx + contactDy * contactDy > playerRadius * playerRadius
    THEN NoSurface
    ELSE Surface("obstacle",
                 FaceHeight(o, playerY, playerRadius, contactDx, contactDy),
                 FaceNormal(contactDx, contactDy),
                 playerRadius - Sqrt(contactDx * contactDx + contactDy * contactDy),
                 TRUE, o.id)

\* getSurfaceInfo of obstacles.js from the contact vector on
FaceSurface(o, playerY, playerRadius, contactDx, contactDy) ==
    IF contactDx * contactDx + contactDy * contactDy
           > (playerRadius + groundTolerance) * (playerRadius + groundTolerance)
    THEN NoSurface
    ELSE Surface("obstacle",
                 FaceHeight(o, playerY, playerRadius, contactDx, contactDy),
                 FaceNormal(contactDx, contactDy),
                 playerRadius - Sqrt(contactDx * contactDx + contactDy * contactDy),
                 TRUE, o.id)

\* getSurfaceInfo of obstacles.js: face normals, tolerance 1.0
getSurfaceInfo(o, playerX, playerY, playerRadius) ==
    FaceSurface(o, playerY, playerRadius,
                playerX - ClosestPoint(o, playerX, playerY).x,
                playerY - ClosestPoint(o, playerX, playerY).y)

\* variant of Closer that lets a later obstacle win a tie
Closer_LastOnTies(closestSurfaceInfo, surfaceInfo) ==
    IF /\ surfaceInfo # NoSurface
       /\ \/ closestSurfaceInfo = NoSurface
          \/ surfaceInfo.penetrationDepth <= closestSurfaceInfo.penetrationDepth
    THEN surfaceInfo
    ELSE closestSurfaceInfo

\* one pass of the loop of findObstacleSurfaceAt
Closer(closestSurfaceInfo, surfaceInfo) ==
    IF /\ surfaceInfo # NoSurface
       /\ \/ closestSurfaceInfo = NoSurface
          \/ surfaceInfo.penetrationDepth < closestSurfaceInfo.penetrationDepth
    THEN surfaceInfo
    ELSE closestSurfaceInfo

\* the loop of findObstacleSurfaceAt from obstacle i on
RECURSIVE ClosestFrom(_, _, _, _, _, _)
ClosestFrom(obstacles, i, x, y, r, closestSurfaceInfo) ==
    IF i > Len(obstacles) THEN closestSurfaceInfo
    ELSE ClosestFrom(obstacles, i + 1, x, y, r,
                     Closer(closestSurfaceInfo, getSurfaceInfo(obstacles[i], x, y, r)))

\* closest-only aggregation (obstacles.js)
findObstacleSurfaceAt(obstacles, x, y, r) ==
    ClosestFrom(obstacles, 1, x, y, r, NoSurface)

(***************************************************************************)
(* Configured worlds: terrain samples (x strictly increasing) and the      *)
(* obstacle list.  The player always starts at (0, 100) with radius 10.    *)
(***************************************************************************)
Worlds ==
    << \* 1: flat terrain half a unit under the ball, no obstacle
       [groundPoints |-> <<Vec(-4000, 8950), Vec(0, 8950), Vec(4000, 8950)>>,
        obstacles |-> <<>>],
       \* 2: terrain sloping down to the right (3-4-5), one unit under the ball
       [groundPoints |-> <<Vec(-2000, 10400), Vec(2000, 7400), Vec(6000, 7400)>>,
        obstacles |-> <<>>],
       \* 3: wall just right of the ball, terrain far below
       [groundPoints |-> <<Vec(-4000, 0), Vec(4000, 0)>>,
        obstacles |-> <<Box(1, 2004, 10000, 2000, 4000)>>],
       \* 4: platform under the ball, terrain far below
       [groundPoints |-> <<Vec(-4000, 0), Vec(4000, 0)>>,
        obstacles |-> <<Box(1, 0, 8460, 4000, 1000)>>],
       \* 5: wall right of the ball and flat terrain just under it
       [groundPoints |-> <<Vec(-4000, 8996), Vec(4000, 8996)>>,
        obstacles |-> <<Box(1, 2004, 10000, 2000, 4000)>>],
       \* 6: flat terrain under the ball, a platform above its head, a box far right
       [groundPoints |-> <<Vec(-4000, 8950), Vec(4000, 8950)>>,
        obstacles |-> <<Box(1, 0, 11600, 4000, 1000), Box(2, 3000, 9500, 1000, 1000)>>]
    >>

\* the ground object of the running world
ground == Worlds[world]

(***************************************************************************)
(* Force and torque accumulation (player.js).                              *)
(***************************************************************************)
\* linearVelocity * (-coefficient * speed), coefficient in thousandths
ResistanceAt(velocity, coefficient, speed) ==
    Vec(-TDiv(TDiv(velocity.x * speed, 100) * coefficient, 1000),
        -TDiv(TDiv(velocity.y * speed, 100) * coefficient, 1000))

\* linearVelocity * (-coefficient * linearVelocity.length())
Resistance(velocity, coefficient) == ResistanceAt(velocity, coefficient, Length(velocity))

\* controlDirection of calculateAirControl and applyTorque
ControlDirection(k) == (IF k.d THEN 1 ELSE 0) - (IF k.a THEN 1 ELSE 0)

calculateAirControl(k) ==
    Vec(ControlDirection(k) * airControlForce * (100 - airControlDistribution), 0)

\* the jump condition of applyForces
JumpCondition(k, p) == k.w /\ p.isGrounded /\ p.currentSurface # NoSurface

\* variant of JumpVector that pushes straight up whenever jump is held
JumpVector_WheneverHeld(k, p) ==
    IF k.w THEN Vec(0, jumpForce * mass * 100) ELSE Vec(0, 0)

\* the jump force of applyForces, zero when the jump condition fails
JumpVector(k, p) ==
    IF JumpCondition(k, p)
    THEN VScale(p.currentSurface.normal, jumpForce * mass * 100, 1000)
    ELSE Vec(0, 0)

\* variant of ContinuousForces with the ground resistance applied in the air too
ContinuousForces_DragEverywhere(k, p) ==
    VAdd(VAdd(VAdd(Vec(0, -(98 * gravityScale * mass * 10)),
                   Resistance(p.linearVelocity, airResistanceCoefficient)),
              Resistance(p.linearVelocity, groundResistanceCoefficient)),
         IF p.isGrounded THEN Vec(0, 0) ELSE calculateAirControl(k))

\* applyForces before the jump: gravity, air resistance, and ground resistance when
\* grounded or air control when not
ContinuousForces(k, p) ==
    VAdd(VAdd(Vec(0, -(98 * gravityScale * mass * 10)),
              Resistance(p.linearVelocity, airResistanceCoefficient)),
         IF p.isGrounded
         THEN Resistance(p.linearVelocity, groundResistanceCoefficient)
         ELSE calculateAirControl(k))

\* variant of applyForces without gravity
applyForces_Weightless(k, p) ==
    VAdd(VAdd(VAdd(Resistance(p.linearVelocity, airResistanceCoefficient),
                   IF p.isGrounded
                   THEN Resistance(p.linearVelocity, groundResistanceCoefficient)
                   ELSE calculateAirControl(k)),
              Vec(0, 0)),
         JumpVector(k, p))

\* applyForces: the net force it returns
applyForces(k, p) == VAdd(ContinuousForces(k, p), JumpVector(k, p))

\* variant of AfterForces whose jump clears isGrounded but keeps currentSurface
AfterForces_FlagOnly(k, p) ==
    IF JumpCondition(k, p) THEN [p EXCEPT !.isGrounded = FALSE] ELSE p

\* variant of AfterForces that scales linearVelocity in place (no clone) when it
\* computes the air resistance
AfterForces_InPlace(k, p) ==
    IF JumpCondition(k, p)
    THEN [p EXCEPT !.linearVelocity = Resistance(@, airResistanceCoefficient),
                   !.isGrounded = FALSE, !.currentSurface = NoSurface]
    ELSE [p EXCEPT !.linearVelocity = Resistance(@, airResistanceCoefficient)]

\* applyForces: the player it leaves
AfterForces(k, p) ==
    IF JumpCondition(k, p)
    THEN [p EXCEPT !.isGrounded = FALSE, !.currentSurface = NoSurface]
    ELSE p

\* the input part of applyTorque, times 1000
ControlTorque(k, p) ==
    IF ControlDirection(k) = 0 THEN 0
    ELSE IF p.isGrounded
    THEN ControlDirection(k) * inputTorqueMagnitude * 1000
    ELSE ControlDirection(k) * inputTorqueMagnitude * 10 * airControlDistribution

\* angularAirResistance of applyTorque, times 1000
AngularAirResistance(omega) ==
    -TDiv(TDiv(omega * Abs(omega), 1000) * angularAirResistanceCoefficient, 1000)

\* applyTorque: the torque about z, times 1000
applyTorque(k, p) ==
    IF p.isGrounded
    THEN ControlTorque(k, p)
    ELSE ControlTorque(k, p) + AngularAirResistance(p.angularVelocity) * momentOfInertia

\* the angular velocity integrateMotion writes
IntegrateAngular(torque, dt, omega) ==
    omega + TDiv(TDiv(torque, momentOfInertia) * dt, 1000)

\* variant of Rotate that turns by the angular velocity of before the update
Rotate_Explicit(p, newOmega, dt) ==
    [p EXCEPT !.angularVelocity = newOmega,
              !.rotation = @ - TDiv(p.angularVelocity * dt, 1000)]

\* the orientation integrateMotion writes, from the updated angular velocity
Rotate(p, newOmega, dt) ==
    [p EXCEPT !.angularVelocity = newOmega, !.rotation = @ - TDiv(newOmega * dt, 1000)]

\* integrateMotion: the player it leaves
integrateMotion(f, torque, dt, p) ==
    Rotate([p EXCEPT !.linearVelocity = VAdd(@, VScale(VScale(f, 1, mass), dt, 1000))],
           IntegrateAngular(torque, dt, p.angularVelocity), dt)

\* position + linearVelocity * deltaTime
Predict(p, dt) == VAdd(p.position, VScale(p.linearVelocity, dt, 1000))

(***************************************************************************)
(* Collision response (player.js).                                         *)
(***************************************************************************)
\* linearVelocity.dot(normal)
NormalVelocity(velocity, normal) == TDiv(Dot(velocity, normal), 1000)

\* variant of NormalImpulse for a perfectly elastic contact
NormalImpulse_Elastic(normalVelocity) == -2 * normalVelocity * mass

\* normalImpulse = -(1 + coefficientOfRestitution) * normalVelocity * mass
NormalImpulse(normalVelocity) ==
    TDiv(-(100 + coefficientOfRestitution) * normalVelocity * mass, 100)

\* the bounce for a given normal velocity
BounceAt(velocity, normal, normalVelocity) ==
    IF normalVelocity < 0
    THEN VAdd(velocity, VScale(normal, TDiv(NormalImpulse(normalVelocity), mass), 1000))
    ELSE velocity

\* the normal impulse, applied only when moving into the surface
applyNormalImpulse(velocity, normal) ==
    BounceAt(velocity, normal, NormalVelocity(velocity, normal))

\* what a response leaves: the velocities, and the normal velocity it measured
Response(velocity, omega, normalVelocity) ==
    [linearVelocity |-> velocity, angularVelocity |-> omega,
     normalVelocity |-> normalVelocity]

\* frictionImpulse of applyRollingPhysics
FrictionImpulse(omega, currentTangentialSpeed, dt) ==
    TDiv((-TDiv(omega * radius, 1000) - currentTangentialSpeed)
             * coefficientOfFriction * dt, 1000)

\* the angular velocity applyRollingPhysics writes
AngularCorrected(omega, currentTangentialSpeed, dt) ==
    omega + TDiv((-TDiv(currentTangentialSpeed * 1000, radius) - omega)
                     * angularCorrectionStrength * dt, 1000)

\* applyRollingPhysics, last step: the normal impulse on the rolled velocity
RollImpulse(rolled, newOmega, surfaceNormal) ==
    Response(applyNormalImpulse(rolled, surfaceNormal), newOmega,
             NormalVelocity(rolled, surfaceNormal))

\* applyRollingPhysics for a given tangential speed
RollAt(velocity, omega, surfaceNormal, dt, tangentVector, currentTangentialSpeed) ==
    RollImpulse(VAdd(velocity,
                     VScale(tangentVector,
                            FrictionImpulse(omega, currentTangentialSpeed, dt), 1000)),
                AngularCorrected(omega, currentTangentialSpeed, dt),
                surfaceNormal)

\* applyRollingPhysics for a given tangent
RollAlong(velocity, omega, surfaceNormal, dt, tangentVector) ==
    RollAt(velocity, omega, surfaceNormal, dt, tangentVector,
           TDiv(Dot(velocity, tangentVector), 1000))

\* applyRollingPhysics: friction, angular correction, then the normal impulse
applyRollingPhysics(velocity, omega, surfaceNormal, dt) ==
    RollAlong(velocity, omega, surfaceNormal, dt,
              Normalize(Vec(-surfaceNormal.y, surfaceNormal.x)))

\* variant of Bounce that applies the rolling response to every contact
Bounce_Rolling(velocity, omega, normal) ==
    applyRollingPhysics(velocity, omega, normal, 16)

\* the else branch of handleObstacleOrTerrainCollision: just bounce
Bounce(velocity, omega, normal) ==
    Response(applyNormalImpulse(velocity, normal), omega, NormalVelocity(velocity, normal))

\* the test "surfaceInfo.allowGrounded && normal.y > 0"
Groundable(surfaceInfo) == surfaceInfo.allowGrounded /\ surfaceInfo.normal.y > 0

\* the surface, the position written for it, and the velocities around its response
Contact(surfaceInfo, newPosition, p, response) ==
    [surface |-> surfaceInfo,
     position |-> newPosition,
     velocityBefore |-> p.linearVelocity,
     angularBefore |-> p.angularVelocity,
     normalVelocity |-> response.normalVelocity,
     velocityAfter |-> response.linearVelocity,
     angularAfter |-> response.angularVelocity]

\* handleObstacleOrTerrainCollision once position and response are computed
Resolved(c, surfaceInfo, newPosition, response) ==
    [c EXCEPT !.player.position = newPosition,
              !.player.linearVelocity = response.linearVelocity,
              !.player.angularVelocity = response.angularVelocity,
              !.player.isGrounded = IF Groundable(surfaceInfo) THEN TRUE ELSE @,
              !.player.currentSurface = IF Groundable(surfaceInfo) THEN surfaceInfo ELSE @,
              !.contacts = Append(@, Contact(surfaceInfo, newPosition, c.player, response))]

\* handleObstacleOrTerrainCollision for a non-null surfaceInfo; c holds the player and
\* the contacts resolved so far
handleObstacleOrTerrainCollision(c, predictedPosition, surfaceInfo, dt) ==
    Resolved(c, surfaceInfo,
             VAdd(predictedPosition,
                  VScale(surfaceInfo.normal, surfaceInfo.penetrationDepth, 1000)),
             IF Groundable(surfaceInfo)
             THEN applyRollingPhysics(c.player.linearVelocity, c.player.angularVelocity,
                                      surfaceInfo.normal, dt)
             ELSE Bounce(c.player.linearVelocity, c.player.angularVelocity,
                         surfaceInfo.normal))

\* terrainInfo as handleCollisions completes it
TerrainWith(info, predictedPosition) ==
    [info EXCEPT !.isVertical = FALSE, !.allowGrounded = TRUE,
                 !.penetrationDepth = info.height - (predictedPosition.y - radius)]

TerrainAt(predictedPosition, g) ==
    TerrainWith(getTerrainInfo(predictedPosition.x, g.groundPoints), predictedPosition)

\* variant of CommitPredicted that leaves the position where it was
CommitPredicted_Stay(c, predictedPosition) == c

\* the last branch of handleCollisions: "if (this.position.equals(this.position))"
CommitPredicted(c, predictedPosition) ==
    IF c.player.position = c.player.position
    THEN [c EXCEPT !.player.position = predictedPosition]
    ELSE c

\* useTerrainCollision of handleCollisions
UseTerrainCollision(c, terrain, obstacle) ==
    \/ obstacle = NoSurface
    \/ c.player.position.y - radius < terrain.height

\* handleCollisions after the obstacle contact: the terrain contact or free flight
TerrainStep(c, predictedPosition, terrain, obstacle, dt) ==
    IF /\ UseTerrainCollision(c, terrain, obstacle)
       /\ terrain.penetrationDepth >= -groundTolerance
    THEN handleObstacleOrTerrainCollision(c, predictedPosition, terrain, dt)
    ELSE IF ~c.player.isGrounded
    THEN CommitPredicted(c, predictedPosition)
    ELSE c

\* handleCollisions: the obstacle contact first
ObstacleStep(c, predictedPosition, terrain, obstacle, dt) ==
    TerrainStep(IF obstacle # NoSurface
                THEN handleObstacleOrTerrainCollision(c, predictedPosition, obstacle, dt)
                ELSE c,
                predictedPosition, terrain, obstacle, dt)

\* variant of Collide that keeps the flags of the previous tick
Collide_KeepFlags(p, predictedPosition, terrain, obstacle, dt) ==
    ObstacleStep([player |-> p,
                  predictedPosition |-> predictedPosition,
                  terrainInfo |-> terrain,
                  obstacleInfo |-> obstacle,
                  contacts |-> <<>>],
                 predictedPosition, terrain, obstacle, dt)

\* handleCollisions once the surfaces are queried; the flags are reset first
Collide(p, predictedPosition, terrain, obstacle, dt) ==
    ObstacleStep([player |-> [p EXCEPT !.isGrounded = FALSE, !.currentSurface = NoSurface],
                  predictedPosition |-> predictedPosition,
                  terrainInfo |-> terrain,
                  obstacleInfo |-> obstacle,
                  contacts |-> <<>>],
                 predictedPosition, terrain, obstacle, dt)

\* handleCollisions from the predicted position on
CollideAt(p, g, dt, predictedPosition) ==
    Collide(p, predictedPosition, TerrainAt(predictedPosition, g),
            findObstacleSurfaceAt(g.obstacles, predictedPosition.x, predictedPosition.y,
                                  radius),
            dt)

\* handleCollisions: the player it leaves, with the locals of the call
handleCollisions(p, g, dt) == CollideAt(p, g, dt, Predict(p, dt))

(***************************************************************************)
(* The frame loop: one tick is updatePhysics(deltaTime, keys, ground), run *)
(* to completion as applyForces, applyTorque, integrateMotion,             *)
(* handleCollisions.                                                       *)
(***************************************************************************)
\* input snapshots {a, d, w} the frame loop passes
KeySnapshots ==
    { [a |-> FALSE, d |-> FALSE, w |-> FALSE],
      [a |-> FALSE, d |-> FALSE, w |-> TRUE],
      [a |-> FALSE, d |-> TRUE,  w |-> FALSE],
      [a |-> TRUE,  d |-> FALSE, w |-> FALSE],
      [a |-> FALSE, d |-> TRUE,  w |-> TRUE] }

\* frame durations in milliseconds: a repeated timestamp, 120 fps, 60 fps
DeltaTimes == {0, 8, 16}

NoKeys == [a |-> FALSE, d |-> FALSE, w |-> FALSE]

NoQuery ==
    [obstacle |-> Box(0, 0, 0, 0, 0), x |-> 0, y |-> 0, radius |-> 0,
     faceInfo |-> NoSurface, contactInfo |-> NoSurface]

\* the player object createPlayer returns
createPlayer ==
    [position |-> StartPosition,
     linearVelocity |-> Vec(0, 0),
     angularVelocity |-> 0,
     rotation |-> 0,
     isGrounded |-> FALSE,
     currentSurface |-> NoSurface]

\* the locals of handleCollisions kept with the state
Locals(c) ==
    [predictedPosition |-> c.predictedPosition, terrainInfo |-> c.terrainInfo,
     obstacleInfo |-> c.obstacleInfo, contacts |-> c.contacts]

NoCollision ==
    [predictedPosition |-> StartPosition, terrainInfo |-> NoSurface,
     obstacleInfo |-> NoSurface, contacts |-> <<>>]

\* updatePhysics once the forces are accumulated; p is the player applyForces leaves
UpdateWith(k, dt, p, g, f) ==
    handleCollisions(integrateMotion(f, applyTorque(k, p), dt, p), g, dt).player

\* updatePhysics: the player one whole tick leaves, from the player it finds
updatePhysics(dt, k, g, p) == UpdateWith(k, dt, AfterForces(k, p), g, applyForces(k, p))

Init ==
    /\ world \in DOMAIN Worlds
    /\ player = createPlayer
    /\ pc = "applyForces"
    /\ keys = NoKeys
    /\ deltaTime = 0
    /\ forces = Vec(0, 0)
    /\ jumpVector = Vec(0, 0)
    /\ inputTorque = 0
    /\ collision = NoCollision
    /\ ticks = 0
    /\ before = createPlayer
    /\ query = NoQuery

ApplyForces ==
    /\ pc = "applyForces"
    /\ ticks < MaxTicks
    /\ \E k \in KeySnapshots, dt \in DeltaTimes :
          /\ keys' = k
          /\ deltaTime' = dt
          /\ forces' = applyForces(k, player)
          /\ jumpVector' = JumpVector(k, player)
          /\ player' = AfterForces(k, player)
    /\ before' = player
    /\ pc' = "applyTorque"
    /\ UNCHANGED <<world, inputTorque, collision, ticks, query>>

\* variant of ApplyTorque whose torque accumulator is not started afresh each tick
ApplyTorque_Accumulating ==
    /\ pc = "applyTorque"
    /\ inputTorque' = inputTorque + applyTorque(keys, player)
    /\ pc' = "integrateMotion"
    /\ UNCHANGED <<world, player, keys, deltaTime, forces, jumpVector, collision, ticks,
                   query, before>>

ApplyTorque ==
    /\ pc = "applyTorque"
    /\ inputTorque' = applyTorque(keys, player)
    /\ pc' = "integrateMotion"
    /\ UNCHANGED <<world, player, keys, deltaTime, forces, jumpVector, collision, ticks,
                   query, before>>

IntegrateMotion ==
    /\ pc = "integrateMotion"
    /\ player' = integrateMotion(forces, inputTorque, deltaTime, player)
    /\ pc' = "handleCollisions"
    /\ UNCHANGED <<world, keys, deltaTime, forces, jumpVector, inputTorque, collision,
                   ticks, query, before>>

HandleCollisions ==
    /\ pc = "handleCollisions"
    /\ player' = handleCollisions(player, ground, deltaTime).player
    /\ collision' = Locals(handleCollisions(player, ground, deltaTime))
    /\ ticks' = ticks + 1
    /\ pc' = "applyForces"
    /\ UNCHANGED <<world, keys, deltaTime, forces, jumpVector, inputTorque, query,
                   before>>

Next == ApplyForces \/ ApplyTorque \/ IntegrateMotion \/ HandleCollisions

Spec == Init /\ [][Next]_vars

(***************************************************************************)
(* Surface queries on their own: getSurfaceInfo as a function of the query *)
(* position, for both obstacle modules.                                    *)
(***************************************************************************)
\* 0.1
contactTolerance == 10

\* the normal of the later obstacle module: the contact vector normalised, (0,1) when
\* contactDistance < 0.0001, which on the model's grid is a zero contact vector
ContactNormal(contactDx, contactDy) ==
    IF contactDx * contactDx + contactDy * contactDy = 0
    THEN Vec(0, 1000)
    ELSE Normalize(Vec(contactDx, contactDy))

\* getSurfaceInfo of the later obstacle module from the contact vector on
ContactSurface(o, playerRadius, contactDx, contactDy) ==
    IF contactDx * contactDx + contactDy * contactDy
           > (playerRadius + contactTolerance) * (playerRadius + contactTolerance)
    THEN NoSurface
    ELSE Surface("obstacle",
                 Sqrt(contactDx * contactDx + contactDy * contactDy),
                 ContactNormal(contactDx, contactDy),
                 playerRadius - Sqrt(contactDx * contactDx + contactDy * contactDy),
                 TRUE, o.id)

\* getSurfaceInfo of the later obstacle module: contact normals, tolerance 0.1
getContactSurfaceInfo(o, playerX, playerY, playerRadius) ==
    ContactSurface(o, playerRadius,
                   playerX - ClosestPoint(o, playerX, playerY).x,
                   playerY - ClosestPoint(o, playerX, playerY).y)

\* query positions: a grid of whole units around the origin, shifted by an offset
QueryExtent == 23

QueryOffsets == {0, 5}

QueryCoords == { 100 * c + d : c \in -QueryExtent .. QueryExtent, d \in QueryOffsets }

\* boxes queried: a wide platform and a tall wall, both centred at the origin
QueryBoxes == { Box(1, 0, 0, 1000, 400), Box(2, 0, 0, 400, 2400) }

QueryRadii == { radius, 500 }

\* a query and the answers of both modules
Asked(o, x, y, r) ==
    [obstacle |-> o, x |-> x, y |-> y, radius |-> r,
     faceInfo |-> getSurfaceInfo(o, x, y, r),
     contactInfo |-> getContactSurfaceInfo(o, x, y, r)]

InitQuery ==
    /\ world = 1
    /\ player = createPlayer
    /\ pc = "query"
    /\ keys = NoKeys
    /\ deltaTime = 0
    /\ forces = Vec(0, 0)
    /\ jumpVector = Vec(0, 0)
    /\ inputTorque = 0
    /\ collision = NoCollision
    /\ ticks = 0
    /\ before = createPlayer
    /\ \E o \in QueryBoxes, r \in QueryRadii, d \in QueryOffsets :
          query = Asked(o, d, d, r)

\* the next query: the same box and radius, the position one step away
SurfaceQuery ==
    /\ pc = "query"
    /\ \E dx \in {-100, 0, 100}, dy \in {-100, 0, 100} :
          /\ (dx = 0) # (dy = 0)
          /\ query.x + dx \in QueryCoords
          /\ query.y + dy \in QueryCoords
          /\ query' = Asked(query.obstacle, query.x + dx, query.y + dy, query.radius)
    /\ UNCHANGED <<world, player, pc, keys, deltaTime, forces, jumpVector, inputTorque,
                   collision, ticks, before>>

NextQuery == SurfaceQuery

SpecQuery == InitQuery /\ [][NextQuery]_vars

(***************************************************************************)
(* Stand-alone terrain queries: getTerrainInfo asked along a terrain, one  *)
(* unit at a time, across every sample and past both ends.                 *)
(***************************************************************************)
\* query positions reach TerrainExtent units either side of the origin
TerrainExtent == 35

\* terrains queried (x strictly increasing, as createGround samples them): four
\* samples with hills, a slope running into a flat, and a single segment
Terrains ==
    { <<Vec(-3000, 0), Vec(-1000, 500), Vec(1000, -300), Vec(3000, 800)>>,
      <<Vec(-2000, 10400), Vec(2000, 7400), Vec(3000, 7400)>>,
      <<Vec(-1000, 100), Vec(1000, 900)>> }

\* a terrain query and its answer
AskedTerrain(groundPoints, x) ==
    [groundPoints |-> groundPoints, x |-> x, terrainInfo |-> getTerrainInfo(x, groundPoints)]

InitTerrain ==
    /\ world = 1
    /\ player = createPlayer
    /\ pc = "terrain"
    /\ keys = NoKeys
    /\ deltaTime = 0
    /\ forces = Vec(0, 0)
    /\ jumpVector = Vec(0, 0)
    /\ inputTorque = 0
    /\ collision = NoCollision
    /\ ticks = 0
    /\ before = createPlayer
    /\ \E groundPoints \in Terrains : query = AskedTerrain(groundPoints, 0)

\* the next query: the same terrain, one unit to the left or right
TerrainQuery ==
    /\ pc = "terrain"
    /\ \E dx \in {-100, 100} :
          /\ Abs(query.x + dx) <= 100 * TerrainExtent
          /\ query' = AskedTerrain(query.groundPoints, query.x + dx)
    /\ UNCHANGED <<world, player, pc, keys, deltaTime, forces, jumpVector, inputTorque,
                   collision, ticks, before>>

NextTerrain == TerrainQuery

SpecTerrain == InitTerrain /\ [][NextTerrain]_vars

(***************************************************************************)
(* Stand-alone aggregation queries: findObstacleSurfaceAt of obstacles.js  *)
(* (closest only) and of the later obstacle module (all colliding,         *)
(* deepest first) asked over obstacle lists.                               *)
(***************************************************************************)
\* the loop of the later findObstacleSurfaceAt from obstacle i on: every non-null
\* result, tagged with the obstacle's id, in list order
RECURSIVE CollisionsFrom(_, _, _, _, _, _)
CollisionsFrom(obstacles, i, x, y, r, collisions) ==
    IF i > Len(obstacles) THEN collisions
    ELSE CollisionsFrom(obstacles, i + 1, x, y, r,
                        IF getContactSurfaceInfo(obstacles[i], x, y, r) # NoSurface
                        THEN Append(collisions,
                                    [getContactSurfaceInfo(obstacles[i], x, y, r)
                                        EXCEPT !.obstacleId = obstacles[i].id])
                        ELSE collisions)

\* variant of DeepestFirst that sorts the shallowest first
DeepestFirst_Ascending(a, b) == a.penetrationDepth - b.penetrationDepth

\* the comparator of the sort: b.penetrationDepth - a.penetrationDepth
DeepestFirst(a, b) == b.penetrationDepth - a.penetrationDepth

\* surfaceInfo put into a sorted list behind every entry the comparator does not
\* place after it (the sort is stable)
RECURSIVE InsertSorted(_, _, _)
InsertSorted(sorted, surfaceInfo, k) ==
    IF k > Len(sorted) THEN Append(sorted, surfaceInfo)
    ELSE IF DeepestFirst(sorted[k], surfaceInfo) > 0
    THEN SubSeq(sorted, 1, k - 1) \o <<surfaceInfo>> \o SubSeq(sorted, k, Len(sorted))
    ELSE InsertSorted(sorted, surfaceInfo, k + 1)

\* collisions.sort(...)
RECURSIVE SortFrom(_, _, _)
SortFrom(collisions, i, sorted) ==
    IF i > Len(collisions) THEN sorted
    ELSE SortFrom(collisions, i + 1, InsertSorted(sorted, collisions[i], 1))

\* all-colliding, deepest-first aggregation (the later obstacle module)
findAllObstacleSurfacesAt(obstacles, x, y, r) ==
    IF CollisionsFrom(obstacles, 1, x, y, r, <<>>) = <<>>
    THEN NoSurface
    ELSE SortFrom(CollisionsFrom(obstacles, 1, x, y, r, <<>>), 1, <<>>)

\* query positions reach AggregateExtent units either side of the origin
AggregateExtent == 8

AggregateCoords == { 100 * c : c \in -AggregateExtent .. AggregateExtent }

\* obstacle lists queried: two boxes either side of a gap, a floor with two boxes on
\* it, and a box lying inside a larger one listed after it
ObstacleLists ==
    { <<Box(1, -1000, 0, 1000, 1000), Box(2, 1000, 0, 1000, 1000)>>,
      <<Box(1, 0, -1000, 4000, 1000), Box(2, 1000, 0, 1000, 1000),
        Box(3, -1000, 200, 1000, 1000)>>,
      <<Box(1, 0, 0, 400, 400), Box(2, 0, 0, 1600, 1600)>> }

\* an aggregation query and the answers of both modules
AskedAll(obstacles, x, y, r) ==
    [obstacles |-> obstacles, x |-> x, y |-> y, radius |-> r,
     closest |-> findObstacleSurfaceAt(obstacles, x, y, r),
     collisions |-> findAllObstacleSurfacesAt(obstacles, x, y, r)]

InitAggregate ==
    /\ world = 1
    /\ player = createPlayer
    /\ pc = "aggregate"
    /\ keys = NoKeys
    /\ deltaTime = 0
    /\ forces = Vec(0, 0)
    /\ jumpVector = Vec(0, 0)
    /\ inputTorque = 0
    /\ collision = NoCollision
    /\ ticks = 0
    /\ before = createPlayer
    /\ \E obstacles \in ObstacleLists, r \in QueryRadii : query = AskedAll(obstacles, 0, 0, r)

\* the next query: the same obstacles and radius, the position one unit away
AggregateQuery ==
    /\ pc = "aggregate"
    /\ \E dx \in {-100, 0, 100}, dy \in {-100, 0, 100} :
          /\ (dx = 0) # (dy = 0)
          /\ query.x + dx \in AggregateCoords
          /\ query.y + dy \in AggregateCoords
          /\ query' = AskedAll(query.obstacles, query.x + dx, query.y + dy, query.radius)
    /\ UNCHANGED <<world, player, pc, keys, deltaTime, forces, jumpVector, inputTorque,
                   collision, ticks, before>>

NextAggregate == AggregateQuery

SpecAggregate == InitAggregate /\ [][NextAggregate]_vars

(***************************************************************************)
(* Stand-alone world construction: createObstacles over configurations     *)
(* built one entry at a time.                                              *)
(***************************************************************************)
\* the cases of the switch of createObstacles
KnownTypes == {"floor", "platform", "wall", "stack", "stair"}

\* obstacleConfig.id || `obstacle_${obstacles.length}`; an absent id is <<>>
ObstacleId(obstacles, obstacleConfig) ==
    IF obstacleConfig.id # <<>> THEN obstacleConfig.id ELSE <<"obstacle_", Len(obstacles)>>

\* createPlatform: the obstacle object, pushed onto obstacles
createPlatform(obstacles, id, x, y, width, height, type) ==
    Append(obstacles,
           [id |-> id, x |-> x, y |-> y, width |-> width, height |-> height, type |-> type])

\* variant of AddConfigured that builds a platform whatever the type
AddConfigured_AnyType(obstacles, obstacleConfig) ==
    createPlatform(obstacles, ObstacleId(obstacles, obstacleConfig), obstacleConfig.x,
                   obstacleConfig.y, obstacleConfig.width, obstacleConfig.height,
                   obstacleConfig.type)

\* the body of the loop of createObstacles: a platform for a known type, a warning
\* and nothing else for any other
AddConfigured(obstacles, obstacleConfig) ==
    IF obstacleConfig.type \in KnownTypes
    THEN createPlatform(obstacles, ObstacleId(obstacles, obstacleConfig), obstacleConfig.x,
                        obstacleConfig.y, obstacleConfig.width, obstacleConfig.height,
                        obstacleConfig.type)
    ELSE obstacles

\* the loop of createObstacles from entry i on
RECURSIVE ObstaclesFrom(_, _, _)
ObstaclesFrom(config, i, obstacles) ==
    IF i > Len(config) THEN obstacles
    ELSE ObstaclesFrom(config, i + 1, AddConfigured(obstacles, config[i]))

\* createObstacles for a given configuration: the obstacle list it returns
createObstacles(config) == ObstaclesFrom(config, 1, <<>>)

\* configurations hold at most MaxEntries entries
MaxEntries == 3

\* types a configuration entry may carry: the known ones, an unknown one, none
ConfigTypes == KnownTypes \cup {"ramp", ""}

\* entries a configuration may hold, with and without an id
ConfigEntries ==
    { [id |-> id, type |-> type, x |-> x, y |-> 0, width |-> 1000, height |-> 400] :
        id \in {<<>>, <<"p">>}, type \in ConfigTypes, x \in {0, 2000} }

\* a configuration and the obstacles built from it
Configured(config) == [config |-> config, obstacles |-> createObstacles(config)]

InitConfig ==
    /\ world = 1
    /\ player = createPlayer
    /\ pc = "config"
    /\ keys = NoKeys
    /\ deltaTime = 0
    /\ forces = Vec(0, 0)
    /\ jumpVector = Vec(0, 0)
    /\ inputTorque = 0
    /\ collision = NoCollision
    /\ ticks = 0
    /\ before = createPlayer
    /\ query = Configured(<<>>)

\* the next configuration: one more entry at the end
ConfigureMore ==
    /\ pc = "config"
    /\ Len(query.config) < MaxEntries
    /\ \E obstacleConfig \in ConfigEntries :
          query' = Configured(Append(query.config, obstacleConfig))
    /\ UNCHANGED <<world, player, pc, keys, deltaTime, forces, jumpVector, inputTorque,
                   collision, ticks, before>>

NextConfig == ConfigureMore

SpecConfig == InitConfig /\ [][NextConfig]_vars

(***************************************************************************)
(* Free fall: updatePhysics repeated on a body released at rest with no    *)
(* key held, over the flat stretch of a terrain generated for a window     *)
(* 2160 pixels high (groundBaseY = -2160 / 2 + 30).                        *)
(***************************************************************************)
\* the ground under the start position, no obstacle
FallGround ==
    [groundPoints |-> <<Vec(-4000, -105000), Vec(4000, -105000)>>, obstacles |-> <<>>]

\* frame durations in milliseconds: a repeated timestamp, 60 fps, and a frame after
\* the page was stalled for 2.7 seconds
FallTimes == {0, 16, 2700}

MaxFall == 5

InitFall ==
    /\ world = 1
    /\ player = createPlayer
    /\ pc = "fall"
    /\ keys = NoKeys
    /\ deltaTime = 0
    /\ forces = Vec(0, 0)
    /\ jumpVector = Vec(0, 0)
    /\ inputTorque = 0
    /\ collision = NoCollision
    /\ ticks = 0
    /\ before = createPlayer
    /\ query = NoQuery

\* one tick of the fall
FreeFall ==
    /\ pc = "fall"
    /\ ticks < MaxFall
    /\ \E dt \in FallTimes :
          /\ deltaTime' = dt
          /\ player' = updatePhysics(dt, NoKeys, FallGround, player)
          /\ collision' = Locals(handleCollisions(
                 integrateMotion(applyForces(NoKeys, player), applyTorque(NoKeys, player),
                                 dt, player), FallGround, dt))
    /\ before' = player
    /\ ticks' = ticks + 1
    /\ UNCHANGED <<world, pc, keys, forces, jumpVector, inputTorque, query>>

NextFall == FreeFall

SpecFall == InitFall /\ [][NextFall]_vars

(***************************************************************************)
(* Drop: updatePhysics repeated at 60 frames per second on a body released *)
(* at rest over a flat floor with no key held.  animate reschedules itself *)
(* with requestAnimationFrame on every frame, so the frame is weakly fair. *)
(***************************************************************************)
\* flat terrain at the given height, no obstacle
DropGround(height) ==
    [groundPoints |-> <<Vec(-4000, height), Vec(4000, height)>>, obstacles |-> <<>>]

\* floor heights: the ball bottom starts 0.5, 10, 40, 90 and 600 units above the floor
DropFloors == {8950, 8000, 5000, 0, -51000}

\* 1/60 s in milliseconds, rounded either way
DropTimes == {16, 17}

InitDrop ==
    /\ world = 1
    /\ player = createPlayer
    /\ pc = "drop"
    /\ keys = NoKeys
    /\ deltaTime \in DropTimes
    /\ forces = Vec(0, 0)
    /\ jumpVector = Vec(0, 0)
    /\ inputTorque = 0
    /\ collision = NoCollision
    /\ ticks = 0
    /\ before = createPlayer
    /\ \E height \in DropFloors :
          query = [floor |-> height, peak |-> StartPosition.y, bounces |-> 0]

\* the body was rising when the tick found it and is not after it: it was at a peak
AtPeak(found, left) == found.linearVelocity.y > 0 /\ left.linearVelocity.y <= 0

\* one tick of the drop; the height of the last peak is kept with the state
DropTickTo(left) ==
    /\ player' = left
    /\ query' = IF AtPeak(player, left)
                THEN [query EXCEPT !.peak = player.position.y, !.bounces = 1]
                ELSE query

\* a frame: animate has run once more (frames are counted modulo 2)
Frame == pc = "drop" /\ ticks' = 1 - ticks

DropTick ==
    /\ Frame
    /\ DropTickTo(updatePhysics(deltaTime, NoKeys, DropGround(query.floor), player))
    /\ before' = player
    /\ UNCHANGED <<world, pc, keys, deltaTime, forces, jumpVector, inputTorque, collision>>

NextDrop == DropTick

SpecDrop == InitDrop /\ [][NextDrop]_vars /\ WF_ticks(Frame)

(***************************************************************************)
(* Rolling: applyRollingPhysics applied to a grounded contact, with the    *)
(* frame duration animate passes down (unclamped).                         *)
(***************************************************************************)
\* frame durations in milliseconds: a repeated timestamp, 60 fps, 10 fps, 5 fps
RollTimes == {0, 16, 100, 200}

\* linear velocities in 1/100 unit per second
RollVelocities == {Vec(0, 0), Vec(300, 0), Vec(-500, 0), Vec(300, -200)}

\* angular velocities in 1/1000 radian per second
RollSpins == {0, 500, -2000}

\* grounded surface normals: flat, and a 3-4-5 slope
RollNormals == {Vec(0, 1000), Vec(600, 800)}

MaxRolls == 2

\* -angularVelocity * radius - linearVelocity . tangent
Slip(velocity, omega, surfaceNormal) ==
    -TDiv(omega * radius, 1000)
        - TDiv(Dot(velocity, Normalize(Vec(-surfaceNormal.y, surfaceNormal.x))), 1000)

InitRoll ==
    /\ world = 1
    /\ player = createPlayer
    /\ pc = "roll"
    /\ keys = NoKeys
    /\ deltaTime = 0
    /\ forces = Vec(0, 0)
    /\ jumpVector = Vec(0, 0)
    /\ inputTorque = 0
    /\ collision = NoCollision
    /\ ticks = 0
    /\ before = createPlayer
    /\ \E velocity \in RollVelocities, omega \in RollSpins, surfaceNormal \in RollNormals :
          query = [linearVelocity |-> velocity, angularVelocity |-> omega,
                   normal |-> surfaceNormal, slipBefore |-> 0]

\* the state after one application
Rolled(response, slip) ==
    [query EXCEPT !.linearVelocity = response.linearVelocity,
                  !.angularVelocity = response.angularVelocity,
                  !.slipBefore = slip]

\* one application of applyRollingPhysics
Roll ==
    /\ pc = "roll"
    /\ ticks < MaxRolls
    /\ \E dt \in RollTimes :
          /\ deltaTime' = dt
          /\ query' = Rolled(applyRollingPhysics(query.linearVelocity, query.angularVelocity,
                                                 query.normal, dt),
                             Slip(query.linearVelocity, query.angularVelocity, query.normal))
    /\ ticks' = ticks + 1
    /\ UNCHANGED <<world, player, pc, keys, forces, jumpVector, inputTorque, collision,
                   before>>

NextRoll == Roll

SpecRoll == InitRoll /\ [][NextRoll]_vars

(***************************************************************************)
(* The earlier player module (player.js 361-683): updatePhysics runs       *)
(* handleGroundCollision and then handleObstacleCollisions, each from its  *)
(* own predicted position.  integrateMotion is the same function.          *)
(***************************************************************************)
\* coefficientOfRestitution of the earlier module, in hundredths
legacyCoefficientOfRestitution == 2

\* airResistanceCoefficient of the earlier module, in ten-thousandths
legacyAirResistanceCoefficient == 15

\* linearVelocity * (-airResistanceCoefficient * speed)
legacyAirResistanceAt(velocity, speed) ==
    Vec(-TDiv(TDiv(velocity.x * speed, 100) * legacyAirResistanceCoefficient, 10000),
        -TDiv(TDiv(velocity.y * speed, 100) * legacyAirResistanceCoefficient, 10000))

\* the jump condition of the earlier applyForces
legacyJumpCondition(k, p) == k.w /\ p.isGrounded

\* the earlier applyForces: the net force it returns
legacyApplyForces(k, p) ==
    VAdd(VAdd(VAdd(Vec(0, -(98 * gravityScale * mass * 10)),
                   legacyAirResistanceAt(p.linearVelocity, Length(p.linearVelocity))),
              IF p.isGrounded
              THEN Resistance(p.linearVelocity, groundResistanceCoefficient)
              ELSE Vec(0, 0)),
         IF legacyJumpCondition(k, p) THEN Vec(0, jumpForce * mass * 100) ELSE Vec(0, 0))

\* the earlier applyForces: the player it leaves
legacyAfterForces(k, p) ==
    IF legacyJumpCondition(k, p) THEN [p EXCEPT !.isGrounded = FALSE] ELSE p

\* the earlier applyTorque: the torque about z, times 1000
legacyApplyTorque(k, p) ==
    ControlDirection(k) * inputTorqueMagnitude * 1000
        + (IF p.isGrounded THEN 0
           ELSE AngularAirResistance(p.angularVelocity) * momentOfInertia)

\* the normal impulse of the earlier module, applied only when moving into the surface
legacyBounceAt(velocity, normal, normalVelocity) ==
    IF normalVelocity < 0
    THEN VAdd(velocity,
              VScale(normal,
                     TDiv(TDiv(-(100 + legacyCoefficientOfRestitution) * normalVelocity * mass,
                               100), mass),
                     1000))
    ELSE velocity

legacyBounce(velocity, normal) ==
    legacyBounceAt(velocity, normal, NormalVelocity(velocity, normal))

\* handleGroundCollision, grounded branch: friction, angular correction, normal impulse
GroundResponseAt(p, terrainNormal, dt, tangentVector, currentTangentialSpeed) ==
    [p EXCEPT !.linearVelocity =
                  legacyBounce(VAdd(@, VScale(tangentVector,
                                              FrictionImpulse(p.angularVelocity,
                                                              currentTangentialSpeed, dt),
                                              1000)),
                               terrainNormal),
              !.angularVelocity = AngularCorrected(@, currentTangentialSpeed, dt)]

GroundResponseAlong(p, terrainNormal, dt, tangentVector) ==
    GroundResponseAt(p, terrainNormal, dt, tangentVector,
                     TDiv(Dot(p.linearVelocity, tangentVector), 1000))

GroundResponse(p, terrainNormal, dt) ==
    GroundResponseAlong(p, terrainNormal, dt,
                        Normalize(Vec(-terrainNormal.y, terrainNormal.x)))

\* what the two handlers leave: the player, and the predicted positions and resolve
\* vectors they computed
LegacyLocals(p, predictedPosition, groundCorrection, secondPosition, correction, hits) ==
    [player |-> p, predictedPosition |-> predictedPosition,
     groundCorrection |-> groundCorrection, obstaclePrediction |-> secondPosition,
     obstacleCorrection |-> correction, hits |-> hits]

\* handleGroundCollision once the penetration depth is known
GroundCollisionAt(p, dt, predictedPosition, terrainNormal, penetrationDepth) ==
    IF penetrationDepth >= -100
    THEN LegacyLocals(
             GroundResponse([p EXCEPT !.isGrounded = TRUE,
                                      !.position = VAdd(predictedPosition,
                                                        VScale(terrainNormal,
                                                               penetrationDepth, 1000))],
                            terrainNormal, dt),
             predictedPosition, VScale(terrainNormal, penetrationDepth, 1000),
             predictedPosition, Vec(0, 0), 0)
    ELSE LegacyLocals([p EXCEPT !.isGrounded = FALSE, !.position = predictedPosition],
                      predictedPosition, Vec(0, 0), predictedPosition, Vec(0, 0), 0)

GroundCollisionWith(p, dt, predictedPosition, terrainInfo) ==
    GroundCollisionAt(p, dt, predictedPosition, terrainInfo.normal,
                      terrainInfo.height - (predictedPosition.y - radius))

\* handleGroundCollision
handleGroundCollision(p, g, dt) ==
    GroundCollisionWith(p, dt, Predict(p, dt),
                        getTerrainInfo(Predict(p, dt).x, g.groundPoints))

\* handleObstacleCollisions, friction of a hit: tangent (-normal.y, normal.x)
HitFrictionAt(velocity, tangent, tangentialVelocity, dt) ==
    VAdd(velocity,
         VScale(tangent, -TDiv(tangentialVelocity * coefficientOfFriction * dt, 1000), 1000))

HitFriction(velocity, normal, dt) ==
    HitFrictionAt(velocity, Vec(-normal.y, normal.x),
                  TDiv(Dot(velocity, Vec(-normal.y, normal.x)), 1000), dt)

\* handleObstacleCollisions, the velocity after a hit
HitVelocity(velocity, normal, grounded, dt) ==
    IF grounded
    THEN HitFriction(legacyBounce(velocity, normal), normal, dt)
    ELSE legacyBounce(velocity, normal)

\* handleObstacleCollisions, one colliding obstacle
HitAt(c, predictedPosition, normal, penetrationDepth, dt) ==
    LegacyLocals(
        [c.player EXCEPT
            !.position = VAdd(predictedPosition, VScale(normal, penetrationDepth, 1000)),
            !.isGrounded = IF normal.y > 700 THEN TRUE ELSE @,
            !.linearVelocity =
                HitVelocity(@, normal, normal.y > 700 \/ c.player.isGrounded, dt)],
        c.predictedPosition, c.groundCorrection, predictedPosition,
        VScale(normal, penetrationDepth, 1000), c.hits + 1)

\* handleObstacleCollisions, one obstacle of the forEach
HitTest(c, predictedPosition, distance, dt) ==
    IF Dot(distance, distance) < radius * radius
    THEN HitAt(c, predictedPosition, Normalize(distance),
               radius - Sqrt(Dot(distance, distance)), dt)
    ELSE c

RECURSIVE HitsFrom(_, _, _, _, _)
HitsFrom(c, obstacles, i, predictedPosition, dt) ==
    IF i > Len(obstacles) THEN c
    ELSE HitsFrom(HitTest(c, predictedPosition,
                          VAdd(predictedPosition,
                               VScale(ClosestPoint(obstacles[i], predictedPosition.x,
                                                   predictedPosition.y), -1, 1)),
                          dt),
                  obstacles, i + 1, predictedPosition, dt)

\* handleObstacleCollisions, from what handleGroundCollision left
handleObstacleCollisions(c, obstacles, dt) ==
    HitsFrom([c EXCEPT !.obstaclePrediction = Predict(c.player, dt)],
             obstacles, 1, Predict(c.player, dt), dt)

\* the earlier updatePhysics
legacyUpdatePhysics(dt, k, g, p) ==
    handleObstacleCollisions(
        handleGroundCollision(
            integrateMotion(legacyApplyForces(k, p),
                            legacyApplyTorque(k, legacyAfterForces(k, p)), dt,
                            legacyAfterForces(k, p)),
            g, dt),
        g.obstacles, dt)

MaxLegacyTicks == 3

NoLegacyCollision ==
    [predictedPosition |-> StartPosition, groundCorrection |-> Vec(0, 0),
     obstaclePrediction |-> StartPosition, obstacleCorrection |-> Vec(0, 0), hits |-> 0]

InitLegacy ==
    /\ world \in DOMAIN Worlds
    /\ player = createPlayer
    /\ pc = "legacy"
    /\ keys = NoKeys
    /\ deltaTime = 0
    /\ forces = Vec(0, 0)
    /\ jumpVector = Vec(0, 0)
    /\ inputTorque = 0
    /\ collision = NoLegacyCollision
    /\ ticks = 0
    /\ before = createPlayer
    /\ query = NoQuery

\* what a tick of the earlier module leaves
LegacyTickTo(c) ==
    /\ player' = c.player
    /\ collision' = [predictedPosition |-> c.predictedPosition,
                     groundCorrection |-> c.groundCorrection,
                     obstaclePrediction |-> c.obstaclePrediction,
                     obstacleCorrection |-> c.obstacleCorrection,
                     hits |-> c.hits]

LegacyTick ==
    /\ pc = "legacy"
    /\ ticks < MaxLegacyTicks
    /\ \E k \in KeySnapshots, dt \in DeltaTimes :
          /\ keys' = k
          /\ deltaTime' = dt
          /\ LegacyTickTo(legacyUpdatePhysics(dt, k, ground, player))
    /\ before' = player
    /\ ticks' = ticks + 1
    /\ UNCHANGED <<world, pc, forces, jumpVector, inputTorque, query>>

NextLegacy == LegacyTick

SpecLegacy == InitLegacy /\ [][NextLegacy]_vars

(***************************************************************************)
(* The debug display of animate: after player.update, the frame queries    *)
(* the terrain again and classifies player.currentSurface.  Every call of  *)
(* getTerrainInfo and getSurfaceInfo returns a new object literal; an      *)
(* object is identified by the frame and the call that made it.            *)
(***************************************************************************)
\* the object a call returned in a frame
ObjectOf(frame, call) == <<frame, call>>

\* "===" on two objects: the same object, not the same contents
SameObject(a, b) == a = b

\* collisionType for an obstacle surface
CollisionType(currentSurface) ==
    IF currentSurface.isVertical THEN "Side"
    ELSE IF currentSurface.normal.y > 0 THEN "Top" ELSE "Bottom"

\* surfaceType and collisionType as animate computes them
debugSurface(currentSurface, currentObject, terrainInfoObject) ==
    IF currentSurface = NoSurface
    THEN [surfaceType |-> "None", collisionType |-> "None"]
    ELSE IF SameObject(currentObject, terrainInfoObject)
    THEN [surfaceType |-> "Terrain", collisionType |-> "None"]
    ELSE [surfaceType |-> "Obstacle", collisionType |-> CollisionType(currentSurface)]

MaxFrames == 3

InitDebug ==
    /\ world \in DOMAIN Worlds
    /\ player = createPlayer
    /\ pc = "animate"
    /\ keys = NoKeys
    /\ deltaTime = 0
    /\ forces = Vec(0, 0)
    /\ jumpVector = Vec(0, 0)
    /\ inputTorque = 0
    /\ collision = NoCollision
    /\ ticks = 0
    /\ before = createPlayer
    /\ query = debugSurface(NoSurface, ObjectOf(0, "update"), ObjectOf(0, "debug"))

\* what a frame leaves: the player after update, and the debug display for it; the
\* surface update stored was made inside update, the terrainInfo of the display after
AnimateTo(left, frame) ==
    /\ player' = left
    /\ query' = debugSurface(left.currentSurface, ObjectOf(frame, "update"),
                             ObjectOf(frame, "debug"))

\* one frame
Animate ==
    /\ pc = "animate"
    /\ ticks < MaxFrames
    /\ \E k \in KeySnapshots, dt \in DeltaTimes :
          /\ keys' = k
          /\ deltaTime' = dt
          /\ AnimateTo(updatePhysics(dt, k, ground, player), ticks + 1)
    /\ before' = player
    /\ ticks' = ticks + 1
    /\ UNCHANGED <<world, pc, forces, jumpVector, inputTorque, collision>>

NextDebug == Animate

SpecDebug == InitDebug /\ [][NextDebug]_vars

(***************************************************************************)
(* Properties.                                                             *)
(***************************************************************************)
\* a tick has just completed
AtTickEnd == pc = "applyForces" /\ ticks > 0

\* the jump force was applied in the running (or just completed) tick
Jumped == jumpVector # Vec(0, 0)

\* the surfaces handleCollisions resolved in the last tick
ResolvedSurfaces == { collision.contacts[i].surface : i \in DOMAIN collision.contacts }

\* C1: at the end of every tick isGrounded is true exactly when a surface resolved in
\* that tick had allowGrounded true and normal.y > 0; the flag of the previous tick
\* does not carry over.
C1_GroundedIffResolvedTop ==
    AtTickEnd =>
        (player.isGrounded <=> \E f \in ResolvedSurfaces : f.allowGrounded /\ f.normal.y > 0)

\* C1 witness: a tick that resolved a side contact and a top contact and ends grounded
C1_Witness ==
    /\ AtTickEnd
    /\ player.isGrounded
    /\ \E f \in ResolvedSurfaces : f.normal.y = 0
    /\ \E f \in ResolvedSurfaces : f.normal.y > 0

\* C2: whenever the jump force is applied in a tick, isGrounded is false at the end of
\* that tick.
C2_AirborneAfterJump == AtTickEnd /\ Jumped => ~player.isGrounded

\* C3: in a tick whose last resolved surface has penetrationDepth d > 0 and normal n,
\* the committed position is predictedPosition + n * d.
C3_PenetrationCorrected ==
    AtTickEnd /\ collision.contacts # <<>> =>
        LET last == collision.contacts[Len(collision.contacts)].surface
        IN  last.penetrationDepth > 0 =>
                player.position = VAdd(collision.predictedPosition,
                                       VScale(last.normal, last.penetrationDepth, 1000))

\* the squared distance from a point to the closest point of a box
DistanceSquared(o, point) ==
    Dot(VAdd(point, VScale(ClosestPoint(o, point.x, point.y), -1, 1)),
        VAdd(point, VScale(ClosestPoint(o, point.x, point.y), -1, 1)))

\* C4: at the end of every tick the body overlaps no obstacle: its centre is at least
\* the radius away from every box.
C4_NoOverlap ==
    AtTickEnd =>
        \A i \in DOMAIN ground.obstacles :
            DistanceSquared(ground.obstacles[i], player.position) >= radius * radius

\* C5: applyForces adds the jump force exactly when jump is held, the body is grounded
\* and a current surface exists; the force is jumpForce * mass along the surface normal
\* and both flags are cleared; otherwise no jump force is added and the flags stay.
C5_JumpOnlyWhenGrounded ==
    [][pc = "applyForces" /\ pc' = "applyTorque" =>
          IF keys'.w /\ player.isGrounded /\ player.currentSurface # NoSurface
          THEN /\ forces' = VAdd(ContinuousForces(keys', player),
                                 VScale(player.currentSurface.normal,
                                        jumpForce * mass * 100, 1000))
               /\ ~player'.isGrounded
               /\ player'.currentSurface = NoSurface
          ELSE /\ forces' = ContinuousForces(keys', player)
               /\ player' = player]_vars

\* C5 witness: a jump from the sloped terrain has been added to the net force
C5_Witness ==
    /\ pc = "applyTorque"
    /\ Jumped
    /\ jumpVector.x # 0
    /\ ~player.isGrounded

\* C6: the jump force is not applied on two consecutive ticks.
C6_NoConsecutiveJump ==
    [][pc = "applyForces" /\ pc' = "applyTorque" /\ Jumped => jumpVector' = Vec(0, 0)]_vars

\* C7: for every resolved contact with normal velocity vn < 0 the normal component
\* after the impulse is -r * vn (within 3/100 unit per second of fixed-point rounding)
\* and not larger than |vn|; with vn >= 0 the normal component is unchanged.
C7_Restitution ==
    AtTickEnd =>
        \A i \in DOMAIN collision.contacts :
            LET contact == collision.contacts[i]
                vn == contact.normalVelocity
                after == TDiv(Dot(contact.velocityAfter, contact.surface.normal), 1000)
            IN  IF vn < 0
                THEN /\ Abs(100 * after + coefficientOfRestitution * vn) <= 300
                     /\ Abs(after) <= Abs(vn)
                ELSE after = vn

\* C7 witness: a contact hit at more than one unit per second
C7_Witness ==
    /\ AtTickEnd
    /\ \E i \in DOMAIN collision.contacts : collision.contacts[i].normalVelocity < -100

\* no surface is selected: no obstacle result and the terrain out of tolerance
NoSurfaceSelected(c) ==
    /\ c.obstacleInfo = NoSurface
    /\ c.terrainInfo.penetrationDepth < -groundTolerance

\* C8: when no surface is selected in a tick, handleCollisions commits
\* position + linearVelocity * dt, leaves both velocities as integrated, and the
\* body is not grounded.
C8_FreeFlight ==
    [][pc = "handleCollisions" /\ pc' = "applyForces" /\ NoSurfaceSelected(collision') =>
          /\ player'.position = VAdd(player.position,
                                     VScale(player.linearVelocity, deltaTime, 1000))
          /\ player'.linearVelocity = player.linearVelocity
          /\ player'.angularVelocity = player.angularVelocity
          /\ ~player'.isGrounded
          /\ player'.currentSurface = NoSurface]_vars

\* C8 witness: a tick that ended in free flight, having moved
C8_Witness ==
    /\ AtTickEnd
    /\ NoSurfaceSelected(collision)
    /\ player.linearVelocity.y > 0
    /\ player.position.y > StartPosition.y

\* a non-null result has a normal of unit length
UnitNormal(info) == info # NoSurface => Dot(info.normal, info.normal) = 1000000

\* C9: every non-null result of getSurfaceInfo has a normal of unit length, in both
\* obstacle modules, also when the query centre lies on or inside the box.
C9_UnitNormal == UnitNormal(query.faceInfo) /\ UnitNormal(query.contactInfo)

\* the distance from the box after moving the query centre by normal * penetrationDepth
DistanceAfterCorrection(q, info) ==
    Sqrt(DistanceSquared(q.obstacle,
                         VAdd(Vec(q.x, q.y),
                              VScale(info.normal, info.penetrationDepth, 1000))))

\* translating the centre by normal * penetrationDepth leaves it a radius away from
\* the box (within 2/100 unit of fixed-point rounding)
RemovesOverlap(q, info) ==
    info # NoSurface /\ info.penetrationDepth >= 0 =>
        Abs(DistanceAfterCorrection(q, info) - q.radius) <= 2

\* C10: for every non-null result with penetrationDepth >= 0, moving the query centre
\* by normal * penetrationDepth removes the overlap exactly, in both obstacle modules.
C10_CorrectionRemovesOverlap ==
    RemovesOverlap(query, query.faceInfo) /\ RemovesOverlap(query, query.contactInfo)

\* the vector from the closest point of the queried box to the query centre
ContactVector(q) ==
    Vec(q.x - ClosestPoint(q.obstacle, q.x, q.y).x, q.y - ClosestPoint(q.obstacle, q.x, q.y).y)

\* the query centre is outside both the x-extent and the y-extent of the box
DiagonallyOutside(q) == ContactVector(q).x # 0 /\ ContactVector(q).y # 0

\* the normal points along the vector c (parallel within rounding, same direction)
PointsAlong(normal, c) ==
    /\ Abs(normal.x * c.y - normal.y * c.x) <= Abs(c.x) + Abs(c.y)
    /\ Dot(normal, c) > 0

\* a non-null result at a corner has its normal along the corner-to-centre line
AlongDiagonal(q, info) ==
    DiagonallyOutside(q) /\ info # NoSurface => PointsAlong(info.normal, ContactVector(q))

\* C11: when the query centre is diagonally outside a box corner and within contact
\* range, getSurfaceInfo returns a normal along the line from the corner to the centre,
\* in both obstacle modules.
C11_CornerNormal == AlongDiagonal(query, query.faceInfo) /\ AlongDiagonal(query, query.contactInfo)

\* the result for a contact vector of squared length d2 under a tolerance: null exactly
\* when the distance exceeds radius + tolerance, else the depth and the classification
RangeAndDepth(q, info, tolerance, d2) ==
    IF d2 > (q.radius + tolerance) * (q.radius + tolerance)
    THEN info = NoSurface
    ELSE /\ info # NoSurface
         /\ info.penetrationDepth = q.radius - Sqrt(d2)
         /\ info.penetrationDepth >= -tolerance
         /\ info.isVertical = (Abs(info.normal.x) > Abs(info.normal.y))

\* C12: getSurfaceInfo returns null exactly when the distance to the closest point of
\* the box exceeds radius + tolerance; otherwise penetrationDepth = radius - distance
\* (down to -tolerance) and isVertical = |normal.x| > |normal.y|, in both modules.
C12_NullBeyondTolerance ==
    /\ RangeAndDepth(query, query.faceInfo, groundTolerance,
                     Dot(ContactVector(query), ContactVector(query)))
    /\ RangeAndDepth(query, query.contactInfo, contactTolerance,
                     Dot(ContactVector(query), ContactVector(query)))

\* C12 witness: a centre near the box without overlap, in range of the wider tolerance
\* only, answered with a negative depth by one module and null by the other
C12_Witness ==
    /\ pc = "query"
    /\ query.faceInfo # NoSurface
    /\ query.faceInfo.penetrationDepth < 0
    /\ query.faceInfo.isVertical
    /\ query.contactInfo = NoSurface

\* the segments of a terrain that bracket x, both ends of a segment included
Bracketing(groundPoints, x) ==
    { i \in 1 .. Len(groundPoints) - 1 : groundPoints[i].x <= x /\ x <= groundPoints[i + 1].x }

\* the reference height over segment i: linear interpolation between its samples
Interpolated(groundPoints, i, x) ==
    groundPoints[i].y
        + TDiv((x - groundPoints[i].x) * (groundPoints[i + 1].y - groundPoints[i].y),
               groundPoints[i + 1].x - groundPoints[i].x)

\* the reference answer before the first or after the last sample
EdgeAnswer(info, sample) == info.height = sample.y /\ info.normal = Vec(0, 1000)

\* C13: getTerrainInfo agrees with the piecewise-linear reference: inside the sampled
\* range, both ends included, the height is the interpolation over a segment bracketing
\* x (so every sample's own height at its x); outside it the edge sample's height with
\* normal (0,1).
C13_TerrainHeight ==
    pc = "terrain" =>
        IF query.x < query.groundPoints[1].x
        THEN EdgeAnswer(query.terrainInfo, query.groundPoints[1])
        ELSE IF query.x > query.groundPoints[Len(query.groundPoints)].x
        THEN EdgeAnswer(query.terrainInfo, query.groundPoints[Len(query.groundPoints)])
        ELSE \E i \in Bracketing(query.groundPoints, query.x) :
                query.terrainInfo.height = Interpolated(query.groundPoints, i, query.x)

\* the normal is perpendicular to segment i, within rounding
PerpendicularTo(normal, groundPoints, i) ==
    Abs(normal.x * (groundPoints[i + 1].x - groundPoints[i].x)
          + normal.y * (groundPoints[i + 1].y - groundPoints[i].y))
        <= Abs(groundPoints[i + 1].x - groundPoints[i].x)
             + Abs(groundPoints[i + 1].y - groundPoints[i].y)

\* the normal has unit length within rounding and points up
UnitAndUp(normal) == Abs(Dot(normal, normal) - 1000000) <= 3000 /\ normal.y > 0

\* C14: for every x the normal of getTerrainInfo is a unit vector with positive
\* y-component, perpendicular to the segment bracketing x.
C14_TerrainNormal ==
    pc = "terrain" =>
        /\ UnitAndUp(query.terrainInfo.normal)
        /\ Bracketing(query.groundPoints, query.x) # {} =>
              \E i \in Bracketing(query.groundPoints, query.x) :
                  PerpendicularTo(query.terrainInfo.normal, query.groundPoints, i)

\* the result of obstacles.js getSurfaceInfo for obstacle i of an aggregation query
FaceResult(q, i) == getSurfaceInfo(q.obstacles[i], q.x, q.y, q.radius)

\* the obstacles of an aggregation query with a non-null result in obstacles.js
NonNull(q) == { i \in DOMAIN q.obstacles : FaceResult(q, i) # NoSurface }

ContactResult(q, i) == getContactSurfaceInfo(q.obstacles[i], q.x, q.y, q.radius)

\* the obstacles of an aggregation query that collide in the later module
Colliding(q) == { i \in DOMAIN q.obstacles : ContactResult(q, i) # NoSurface }

\* C16: all-colliding findObstacleSurfaceAt returns null when no obstacle collides,
\* and otherwise a list holding the result of every colliding obstacle exactly once,
\* tagged with its obstacle id, in order of non-increasing penetrationDepth.
C16_AllDeepestFirst ==
    pc = "aggregate" =>
        IF Colliding(query) = {}
        THEN query.collisions = NoSurface
        ELSE /\ query.collisions # NoSurface
             /\ Len(query.collisions) = Cardinality(Colliding(query))
             /\ \A i \in Colliding(query) :
                   \E k \in DOMAIN query.collisions :
                       /\ query.collisions[k] = ContactResult(query, i)
                       /\ query.collisions[k].obstacleId = query.obstacles[i].id
                       /\ \A m \in DOMAIN query.collisions :
                             query.collisions[m].obstacleId = query.obstacles[i].id => m = k
             /\ \A k \in 1 .. Len(query.collisions) - 1 :
                   query.collisions[k].penetrationDepth
                       >= query.collisions[k + 1].penetrationDepth

\* C16 witness: three obstacles collide at different depths, the one listed first
\* being the shallowest
C16_Witness ==
    /\ pc = "aggregate"
    /\ query.collisions # NoSurface
    /\ Len(query.collisions) = 3
    /\ query.collisions[1].penetrationDepth > query.collisions[2].penetrationDepth
    /\ query.collisions[2].penetrationDepth > query.collisions[3].penetrationDepth
    /\ query.collisions[3].obstacleId = query.obstacles[1].id

\* C17: a tick with dt = 0 leaves position, linearVelocity, angularVelocity, rotation,
\* isGrounded and currentSurface as it found them.
C17_ZeroStepNoOp == AtTickEnd /\ deltaTime = 0 => player = before

JumpFiring ==
    pc = "applyForces" /\ keys'.w /\ player.isGrounded /\ player.currentSurface # NoSurface

\* an accumulator step leaves the motion state alone and clears the flags only when
\* a jump fires
AccumulatorStepPure ==
    pc \in {"applyForces", "applyTorque"} /\ pc' # pc =>
        /\ player'.position = player.position
        /\ player'.linearVelocity = player.linearVelocity
        /\ player'.angularVelocity = player.angularVelocity
        /\ player'.rotation = player.rotation
        /\ IF JumpFiring
           THEN ~player'.isGrounded /\ player'.currentSurface = NoSurface
           ELSE /\ player'.isGrounded = player.isGrounded
                /\ player'.currentSurface = player.currentSurface

\* C20: applyForces (with calculateAirControl) and applyTorque leave position,
\* linearVelocity, angularVelocity and rotation unchanged; isGrounded and
\* currentSurface change only when a jump fires, and are then cleared.
C20_AccumulatorsPure == [][AccumulatorStepPure]_vars

\* C20 witness: both accumulators have run on a moving, spinning body and a jump fired
C20_Witness ==
    /\ pc = "integrateMotion"
    /\ Jumped
    /\ before.isGrounded
    /\ ~player.isGrounded
    /\ player.linearVelocity # Vec(0, 0)
    /\ player.angularVelocity # 0

\* the entry is of one of the five types createObstacles builds
OfKnownType(obstacleConfig) ==
    obstacleConfig.type \in {"floor", "platform", "wall", "stack", "stair"}

\* the obstacle was built from the entry
BuiltFrom(obstacle, obstacleConfig) ==
    /\ obstacle.type = obstacleConfig.type
    /\ obstacle.x = obstacleConfig.x /\ obstacle.y = obstacleConfig.y
    /\ obstacle.width = obstacleConfig.width /\ obstacle.height = obstacleConfig.height
    /\ obstacleConfig.id # <<>> => obstacle.id = obstacleConfig.id

\* C18: createObstacles skips entries of unknown type and continues: the returned
\* list holds exactly the known-type entries, each once, in configuration order.
C18_UnknownTypesSkipped ==
    pc = "config" =>
        /\ Len(query.obstacles) = Len(SelectSeq(query.config, OfKnownType))
        /\ \A k \in DOMAIN query.obstacles :
              BuiltFrom(query.obstacles[k], SelectSeq(query.config, OfKnownType)[k])

\* C18 witness: an entry of unknown type between two known ones of different kind and
\* place, the first of them without an id
C18_Witness ==
    /\ pc = "config"
    /\ Len(query.config) = 3
    /\ query.config[1].type = "wall"
    /\ query.config[2].type = "ramp"
    /\ query.config[3].type = "stair"
    /\ query.config[1].x # query.config[3].x
    /\ query.config[1].id = <<>>
    /\ Len(query.obstacles) = 2

\* gravity and quadratic air drag on a body of the given velocity
GravityAndAirDrag(velocity) ==
    VAdd(Vec(0, -(98 * gravityScale * mass * 10)),
         Resistance(velocity, airResistanceCoefficient))

\* an applyForces step: gravity and air drag always, ground drag exactly when grounded,
\* the lateral air-control force exactly when not
ForcesByGrounding ==
    pc = "applyForces" /\ pc' = "applyTorque" =>
        forces' =
            VAdd(VAdd(GravityAndAirDrag(player.linearVelocity),
                      IF player.isGrounded
                      THEN Resistance(player.linearVelocity, groundResistanceCoefficient)
                      ELSE Vec(ControlDirection(keys') * airControlForce
                                   * (100 - airControlDistribution), 0)),
                 jumpVector')

\* an applyTorque step: the full input torque when grounded; when not, the input torque
\* scaled by airControlDistribution plus the angular air drag
TorqueByGrounding ==
    pc = "applyTorque" /\ pc' = "integrateMotion" =>
        inputTorque' =
            IF player.isGrounded
            THEN ControlDirection(keys) * inputTorqueMagnitude * 1000
            ELSE ControlDirection(keys) * inputTorqueMagnitude * 10 * airControlDistribution
                     + AngularAirResistance(player.angularVelocity) * momentOfInertia

\* C21: in every tick the ground drag is part of the net force exactly when isGrounded
\* is true as the force is computed; the angular air drag, the lateral air control and
\* the airControlDistribution scaling of the input torque apply exactly when it is
\* false as they are computed; gravity and quadratic air drag apply in every tick.
C21_TermsByGrounding == [][ForcesByGrounding /\ TorqueByGrounding]_vars

\* C21 witness: a jump tick of a moving, spinning body with a direction key held: the
\* force was computed grounded, the torque airborne
C21_Witness ==
    /\ pc = "integrateMotion"
    /\ before.isGrounded
    /\ ~player.isGrounded
    /\ ControlDirection(keys) # 0
    /\ player.linearVelocity.x # 0
    /\ player.angularVelocity # 0

\* an integrateMotion step: the velocities from the accelerations, the rotation from
\* the updated angular velocity, the position untouched
SemiImplicitStep ==
    pc = "integrateMotion" /\ pc' = "handleCollisions" =>
        /\ player'.linearVelocity =
              VAdd(player.linearVelocity, VScale(VScale(forces, 1, mass), deltaTime, 1000))
        /\ player'.angularVelocity =
              player.angularVelocity
                  + TDiv(TDiv(inputTorque, momentOfInertia) * deltaTime, 1000)
        /\ player'.rotation = player.rotation - TDiv(player'.angularVelocity * deltaTime, 1000)
        /\ player'.position = player.position

\* the position is written by handleCollisions only, which predicts it from the
\* updated linearVelocity
PositionByCollisionOnly ==
    /\ pc' # pc /\ pc # "handleCollisions" => player'.position = player.position
    /\ pc = "handleCollisions" /\ pc' # pc =>
          collision'.predictedPosition =
              VAdd(player.position, VScale(player.linearVelocity, deltaTime, 1000))

TerminalSpeed == Sqrt(TDiv(98 * gravityScale * mass * 10 * 100000, airResistanceCoefficient))

\* a tick of the fall that met no surface
FellFreely == pc = "fall" /\ ticks > 0 /\ collision.contacts = <<>> /\ ~player.isGrounded

\* C23: in free fall from rest (no contact, no input) linearVelocity.y decreases
\* monotonically from tick to tick and never passes below the terminal velocity
\* -sqrt(9.8 * gravityScale * mass / airResistanceCoefficient) (here with a margin of
\* half a unit per second for the rounding).
C23_FallToTerminal ==
    FellFreely =>
        /\ player.linearVelocity.y <= before.linearVelocity.y
        /\ player.linearVelocity.y >= -(TerminalSpeed + 50)

\* resting contact: grounded with less than one unit per second of vertical velocity
AtRest == pc = "drop" /\ player.isGrounded /\ Abs(player.linearVelocity.y) < 100

\* each peak is lower than the one before it (the first one lower than the release)
PeakLower == query'.peak # query.peak => query'.peak < query.peak

\* C24: a body dropped at rest onto a flat floor (restitution 0.3, dt = 1/60, no
\* input) bounces with strictly decreasing peak height, eventually reaches resting
\* contact (isGrounded, |linearVelocity.y| < epsilon) and stays at rest.
C24_BouncesToRest == [][pc = "drop" => PeakLower]_vars /\ <>[]AtRest

\* C24 witness: at rest after a bounce that left the floor
C24_Witness == AtRest /\ query.bounces = 1 /\ query.peak < StartPosition.y

\* the contacts of the last tick that did not qualify as grounded
Ungrounded ==
    { i \in DOMAIN collision.contacts : ~Groundable(collision.contacts[i].surface) }

\* the velocity change of a contact, along the tangent (-normal.y, normal.x)
TangentialChange(contact) ==
    Dot(VAdd(contact.velocityAfter, VScale(contact.velocityBefore, -1, 1)),
        Vec(-contact.surface.normal.y, contact.surface.normal.x))

ObstacleFound == AtTickEnd /\ collision.obstacleInfo # NoSurface

\* the obstacle contact comes first, and a terrain contact follows only from a
\* corrected position whose bottom is under the terrain height
ObstacleThenTerrain ==
    /\ collision.contacts # <<>>
    /\ collision.contacts[1].surface = collision.obstacleInfo
    /\ Len(collision.contacts) <= 2
    /\ Len(collision.contacts) = 2 =>
          /\ collision.contacts[2].surface = collision.terrainInfo
          /\ collision.contacts[1].position.y - radius < collision.terrainInfo.height

\* C26: when an obstacle surface is found it is resolved first; the terrain is
\* resolved afterwards only if position.y - radius after the obstacle correction is
\* under the terrain height at the predicted x; and when the terrain is not resolved
\* the position committed is the obstacle's corrected position.
C26_ObstacleBeforeTerrain ==
    ObstacleFound =>
        /\ ObstacleThenTerrain
        /\ Len(collision.contacts) = 1 => player.position = collision.contacts[1].position

\* C27: one application of applyRollingPhysics on a grounded contact never increases
\* the slip magnitude |-angularVelocity * radius - linearVelocity . tangent|, for
\* every dt >= 0 the caller can supply (3/100 unit per second allowed for rounding).
C27_SlipNeverGrows ==
    pc = "roll" /\ ticks > 0 =>
        Abs(Slip(query.linearVelocity, query.angularVelocity, query.normal))
            <= Abs(query.slipBefore) + 3

\* C28: in every reachable state, between the steps of a tick included, isGrounded
\* is true exactly when currentSurface is non-null.
C28_GroundedIffSurface == player.isGrounded <=> player.currentSurface # NoSurface

\* C28 witness: in the middle of a tick that started grounded and jumped, both
\* already cleared by applyForces
C28_Witness ==
    /\ pc = "integrateMotion"
    /\ Jumped
    /\ before.isGrounded
    /\ before.currentSurface # NoSurface
    /\ ~player.isGrounded
    /\ player.currentSurface = NoSurface

\* the position one displacement and the resolve vectors of the tick lead to: the
\* ground handler's predicted position, with the obstacle's correction, and with or
\* without the terrain's
DisplacedOnce ==
    { VAdd(VAdd(collision.predictedPosition, collision.groundCorrection),
           collision.obstacleCorrection),
      VAdd(collision.predictedPosition, collision.obstacleCorrection) }

\* C29: in the module whose updatePhysics runs handleGroundCollision and then
\* handleObstacleCollisions, the displacement linearVelocity * dt is applied to position
\* once per tick: the committed position is the pre-tick position plus one step plus
\* the penetration correction.
C29_DisplacedOnce ==
    pc = "legacy" /\ ticks > 0 => player.position \in DisplacedOnce

\* C30: the debug display classifies the current surface by its origin: a
\* currentSurface produced by the terrain query is reported as Terrain, one produced
\* by an obstacle query as Obstacle with collision type Side, Top or Bottom from its
\* normal, and a null currentSurface as None.
C30_DebugSurface ==
    pc = "animate" /\ ticks > 0 =>
        /\ player.currentSurface.kind = "none" => query.surfaceType = "None"
        /\ player.currentSurface.kind = "terrain" => query.surfaceType = "Terrain"
        /\ player.currentSurface.kind = "obstacle" =>
              /\ query.surfaceType = "Obstacle"
              /\ query.collisionType =
                     (IF Abs(player.currentSurface.normal.x)
                             > Abs(player.currentSurface.normal.y) THEN "Side"
                      ELSE IF player.currentSurface.normal.y > 0 THEN "Top" ELSE "Bottom")

====
